---- MODULE Spec2Model ----
(***************************************************************************)
(* Model of the request gateway of the Bugcrowd MCP server                 *)
(* (src/openai_mcp_server.py): the query-string and resource-id codec, the *)
(* cached credentials, the shared HTTP client, the mapping of upstream     *)
(* outcomes to the exceptions the caller sees, the tools create_submission *)
(* and server_health, and the teardown of the process.                     *)
(*                                                                         *)
(* Strings are sequences of units.  A unit is one raw character, one whole *)
(* percent escape ("%0A") or one word made only of letters, digits and     *)
(* underscores ("method").  LF is the decoded line feed.                   *)
(***************************************************************************)
EXTENDS Integers, Sequences, FiniteSets, TLC

VARIABLES environ, _api_credentials, _http_client, clients, task, teardown, workload, codec

vars == <<environ, _api_credentials, _http_client, clients, task, teardown, workload, codec>>

(* ------------------------------ bounds --------------------------------- *)

\* Longest raw query string, in units, the codec specification draws.
MaxRawLen == 6
\* Longest resource id, in units, the codec specification draws.
MaxIdLen == 3
\* Number of concurrent callers of the concurrent specification.
NumTasks == 2
\* Number of HTTP clients the process constructs before construction is cut off.
MaxClients == 2
\* Number of times the process teardown is run.
MaxShutdowns == 2

(* --------------------------- Python values ----------------------------- *)

None == [type |-> "NoneType"]
Str(s) == [type |-> "str", s |-> s]

LF == "\n"
SP == " "

\* Units that are made of [A-Za-z0-9_] only.
WordUnits == {"k", "v", "method", "endpoint", "json_data", "query_params", "limit", "1"}
\* str.strip() removes these from both ends.
Whitespace == {SP, LF}

RECURSIVE lstrip(_)
lstrip(s) ==
    IF s # <<>> /\ Head(s) \in Whitespace THEN lstrip(Tail(s)) ELSE s

RECURSIVE rstrip(_)
rstrip(s) ==
    IF s # <<>> /\ s[Len(s)] \in Whitespace
        THEN rstrip(SubSeq(s, 1, Len(s) - 1))
        ELSE s

\* str.strip()
strip(s) == rstrip(lstrip(s))

\* Index of the first unit of s equal to c, 0 when there is none.
RECURSIVE find(_, _, _)
find(s, c, i) ==
    IF i > Len(s) THEN 0
    ELSE IF s[i] = c THEN i
    ELSE find(s, c, i + 1)

\* str.split(sep): the segments between the separators, empty ones kept.
RECURSIVE split(_, _)
split(s, sep) ==
    LET i == find(s, sep, 1) IN
    IF i = 0 THEN <<s>>
    ELSE <<SubSeq(s, 1, i - 1)>> \o split(SubSeq(s, i + 1, Len(s)), sep)

\* str.split(sep, 1): at most one split, at the first separator.
split1(s, sep) ==
    LET i == find(s, sep, 1) IN
    IF i = 0 THEN <<s>>
    ELSE <<SubSeq(s, 1, i - 1), SubSeq(s, i + 1, Len(s))>>

\* urllib.parse.unquote_plus on one unit: '+' is a space, an escape its character.
unquote_unit(c) ==
    CASE c = "+" -> SP
      [] c = "%0A" -> LF
      [] c = "%20" -> SP
      [] c = "%3D" -> "="
      [] OTHER -> c

unquote_plus(s) == [i \in 1..Len(s) |-> unquote_unit(s[i])]

\* re.match(r'^[...]+$', s): '$' also matches just before one trailing line feed.
re_match_plus(s, charset) ==
    LET body == IF s # <<>> /\ s[Len(s)] = LF THEN SubSeq(s, 1, Len(s) - 1) ELSE s
    IN  /\ Len(body) >= 1
        /\ \A i \in 1..Len(body) : body[i] \in charset

\* [a-zA-Z0-9_\[\].]
ParamNameChars == WordUnits \cup {"[", "]", "."}
\* [a-zA-Z0-9_-]
ResourceIdChars == WordUnits \cup {"-"}

(* ----------------------------- exceptions ------------------------------ *)

Exception(cls, msg) == [cls |-> cls, msg |-> msg]
NoException == [cls |-> "", msg |-> <<>>]

Returned(value) == [raised |-> FALSE, exc |-> NoException, value |-> value]
Raised(exc) == [raised |-> TRUE, exc |-> exc, value |-> None]

(* ------------------------------ ParamCodec ----------------------------- *)

\* A faulty loop: a key already present keeps its first value.
RECURSIVE parse_loop_first_wins(_, _)
parse_loop_first_wins(segments, params) ==
    IF segments = <<>> THEN Returned(params)
    ELSE
        LET param == Head(segments) IN
        IF find(param, "=", 1) = 0 THEN parse_loop_first_wins(Tail(segments), params)
        ELSE
            LET kv == split1(param, "=")
                key == unquote_plus(strip(kv[1]))
                value == unquote_plus(strip(kv[2]))
            IN  IF ~ re_match_plus(key, ParamNameChars)
                    THEN Raised(Exception("ValueError",
                                <<"Invalid parameter name: ">> \o key))
                    ELSE parse_loop_first_wins(Tail(segments),
                            [k \in DOMAIN params \cup {key} |->
                                IF k \in DOMAIN params THEN params[k] ELSE value])

\* One pass of the loop body of _parse_query_params over the segments left.
RECURSIVE parse_loop(_, _)
parse_loop(segments, params) ==
    IF segments = <<>> THEN Returned(params)
    ELSE
        LET param == Head(segments) IN
        IF find(param, "=", 1) = 0 THEN parse_loop(Tail(segments), params)
        ELSE
            LET kv == split1(param, "=")
                key == unquote_plus(strip(kv[1]))
                value == unquote_plus(strip(kv[2]))
            IN  IF ~ re_match_plus(key, ParamNameChars)
                    THEN Raised(Exception("ValueError",
                                <<"Invalid parameter name: ">> \o key))
                    ELSE parse_loop(Tail(segments),
                            [k \in DOMAIN params \cup {key} |->
                                IF k = key THEN value ELSE params[k]])

_parse_query_params(query_params) ==
    IF strip(query_params) = <<>> THEN Returned(<<>>)
    ELSE
        LET r == parse_loop(split(query_params, "&"), <<>>) IN
        IF r.raised
            THEN Raised(Exception("ValueError",
                        <<"Malformed query parameters: ">> \o query_params))
            ELSE r

_validate_resource_id(resource_id) ==
    IF resource_id = <<>> \/ strip(resource_id) = <<>>
        THEN Raised(Exception("ValueError", <<"Resource ID cannot be empty">>))
    ELSE IF ~ re_match_plus(strip(resource_id), ResourceIdChars)
        THEN Raised(Exception("ValueError",
                    <<"Invalid resource ID format: ">> \o strip(resource_id)))
    ELSE Returned(strip(resource_id))

(* ----------------- Credentials & Connection Manager -------------------- *)

ConfigurationMessage ==
    <<"BUGCROWD_API_USERNAME and BUGCROWD_API_PASSWORD must be set in environment variables. ",
      "Please configure your Bugcrowd API credentials.">>

\* Python truthiness of the value os.getenv returns: None and "" are false.
truthy(x) == x.type = "str" /\ x.s # <<>>

\* A faulty loader: the cache is not consulted, every call reads the
\* configuration again and stores what it finds.
_load_api_credentials_reread(cache, env) ==
    LET username == env.BUGCROWD_API_USERNAME
        password == env.BUGCROWD_API_PASSWORD
    IN  IF ~ truthy(username) \/ ~ truthy(password)
            THEN [raised |-> TRUE,
                  exc |-> Exception("RuntimeError", ConfigurationMessage),
                  value |-> None,
                  _api_credentials |-> cache]
            ELSE LET loaded == [type |-> "dict", username |-> username.s,
                                password |-> password.s]
                 IN [raised |-> FALSE, exc |-> NoException,
                     value |-> loaded, _api_credentials |-> loaded]

\* The outcome of _load_api_credentials and the cache it leaves.
_load_api_credentials(cache, env) ==
    IF cache = None THEN
        LET username == env.BUGCROWD_API_USERNAME
            password == env.BUGCROWD_API_PASSWORD
        IN  IF ~ truthy(username) \/ ~ truthy(password)
                THEN [raised |-> TRUE,
                      exc |-> Exception("RuntimeError", ConfigurationMessage),
                      value |-> None,
                      _api_credentials |-> cache]
                ELSE LET loaded == [type |-> "dict", username |-> username.s,
                                    password |-> password.s]
                     IN [raised |-> FALSE, exc |-> NoException,
                         value |-> loaded, _api_credentials |-> loaded]
    ELSE [raised |-> FALSE, exc |-> NoException,
          value |-> cache, _api_credentials |-> cache]

\* A faulty getter: a client is constructed on every call.
_get_http_client_always_new(held, pool) ==
    [client |-> Len(pool) + 1,
     _http_client |-> Len(pool) + 1,
     clients |-> Append(pool, FALSE)]

\* The client _get_http_client returns, the holder and the client objects it leaves.
\* held = 0 is None; pool[i] is client i's is_closed.
_get_http_client(held, pool) ==
    IF held = 0 \/ pool[held]
        THEN [client |-> Len(pool) + 1,
              _http_client |-> Len(pool) + 1,
              clients |-> Append(pool, FALSE)]
        ELSE [client |-> held, _http_client |-> held, clients |-> pool]

(* --------------------------- RequestGateway ---------------------------- *)

BUGCROWD_API_BASE == "https://api.bugcrowd.com"
BUGCROWD_API_VERSION == "2025-04-23"

NoRequest == [method |-> "", url |-> <<>>, headers |-> <<>>, params |-> <<>>,
              json |-> None, client |-> 0]

UnexpectedPrefix == "Unexpected error during API request: "

\* The except Exception handler: str(e) of the cause under a fixed prefix.
unexpected_error(cause) ==
    Exception("RuntimeError", <<UnexpectedPrefix>> \o cause)

\* The value a step of a call hands on: an exception for the caller, or the
\* request put on the wire, with the module globals the step leaves.
Outcome(raised, exc, request, cache, held, pool) ==
    [raised |-> raised, exc |-> exc, request |-> request,
     _api_credentials |-> cache, _http_client |-> held, clients |-> pool]

clean_params_keeps_all(query_params) == query_params

\* {k: v for k, v in query_params.items() if k not in ['query_params'] and
\* v is not None}: the values are strings, so only the key decides.
clean_params(query_params) ==
    [k \in DOMAIN query_params \ {<<"query_params">>} |-> query_params[k]]

\* bugcrowd_request up to its suspension in client.request.
bugcrowd_request_send(method, endpoint, json_data, query_params, cache, env, held, pool) ==
    LET credentials == _load_api_credentials(cache, env) IN
    IF credentials.raised
        THEN Outcome(TRUE, unexpected_error(credentials.exc.msg), NoRequest,
                credentials._api_credentials, held, pool)
        ELSE
            LET got == _get_http_client(held, pool)
                url == <<BUGCROWD_API_BASE>> \o endpoint
                headers ==
                    [h \in {"Accept", "Authorization", "Bugcrowd-Version", "User-Agent"} |->
                        CASE h = "Accept" -> <<"application/vnd.bugcrowd+json">>
                          [] h = "Authorization" ->
                                <<"Token ">> \o credentials.value.username
                                    \o <<":">> \o credentials.value.password
                          [] h = "Bugcrowd-Version" -> <<BUGCROWD_API_VERSION>>
                          [] OTHER -> <<"Bugcrowd-MCP-Server/1.0.0">>]
            IN  Outcome(FALSE, NoException,
                    [method |-> method, url |-> url, headers |-> headers,
                     params |-> clean_params(query_params), json |-> json_data,
                     client |-> got.client],
                    credentials._api_credentials, got._http_client, got.clients)

\* Response.json()
response_json(body) ==
    IF body.type = "json"
        THEN Returned([type |-> "dict", data |-> body.text])
        ELSE Raised(Exception("JSONDecodeError",
                    <<"Expecting value: line 1 column 1 (char 0)">>))

\* A faulty handler: the 403 branch is missing, so 403 falls to the generic one.
http_status_error_no_403(endpoint, status_code) ==
    IF status_code = 401 THEN
        Exception("RuntimeError",
            <<"Authentication failed. Please check your Bugcrowd API credentials.">>)
    ELSE IF status_code = 404 THEN
        Exception("RuntimeError", <<"Resource not found: ">> \o endpoint)
    ELSE IF status_code = 429 THEN
        Exception("RuntimeError", <<"Rate limit exceeded. Please try again later.">>)
    ELSE
        Exception("RuntimeError",
            <<"API request failed with status ", ToString(status_code)>>)

\* The except httpx.HTTPStatusError handler: the RuntimeError it raises.
http_status_error(endpoint, status_code) ==
    IF status_code = 401 THEN
        Exception("RuntimeError",
            <<"Authentication failed. Please check your Bugcrowd API credentials.">>)
    ELSE IF status_code = 403 THEN
        Exception("RuntimeError",
            <<"Access forbidden. You may not have permission to access this resource.">>)
    ELSE IF status_code = 404 THEN
        Exception("RuntimeError", <<"Resource not found: ">> \o endpoint)
    ELSE IF status_code = 429 THEN
        Exception("RuntimeError", <<"Rate limit exceeded. Please try again later.">>)
    ELSE
        Exception("RuntimeError",
            <<"API request failed with status ", ToString(status_code)>>)

\* The except httpx.RequestError handler.
request_error(endpoint) ==
    Exception("RuntimeError", <<"Network error: Unable to connect to Bugcrowd API">>)

\* Response.raise_for_status() raises for every status outside 2xx.
is_success(status_code) == status_code >= 200 /\ status_code <= 299

\* bugcrowd_request from the resumption of client.request to its return or raise.
\* upstream.kind is "response", "RequestError" (httpx transport failures) or
\* "Exception" (anything else client.request raises).
bugcrowd_request_recv(method, endpoint, upstream) ==
    CASE upstream.kind = "RequestError" -> Raised(request_error(endpoint))
      [] upstream.kind = "Exception" -> Raised(unexpected_error(upstream.detail))
      [] OTHER ->
            IF ~ is_success(upstream.status)
                THEN Raised(http_status_error(endpoint, upstream.status))
                ELSE LET result == response_json(upstream.body) IN
                     IF result.raised
                        THEN Raised(unexpected_error(result.exc.msg))
                        ELSE result

\* Names of the positional parameters of bugcrowd_request: a keyword argument
\* of the same name makes the call itself raise TypeError.
PositionalNames == {<<"method">>, <<"endpoint">>, <<"json_data">>}

\* Python truthiness of an Optional[str] argument.
given(resource_id) == resource_id.type = "str" /\ resource_id.s # <<>>

\* f"{endpoint}/{validated_id}", or the endpoint alone.
full_endpoint(endpoint, resource_id) ==
    IF given(resource_id)
        THEN endpoint \o <<"/">> \o _validate_resource_id(resource_id.s).value
        ELSE endpoint

\* A faulty helper: credentials and client are acquired before the arguments
\* are validated, so a rejected call has already touched the globals.
_make_api_request_acquire_first(method, endpoint, resource_id, query_params, json_data, cache, env, held, pool) ==
    LET validated == IF given(resource_id)
                        THEN _validate_resource_id(resource_id.s)
                        ELSE Returned(<<>>)
        parsed_params == _parse_query_params(query_params)
        credentials == _load_api_credentials(cache, env)
        got == IF credentials.raised
                  THEN [client |-> 0, _http_client |-> held, clients |-> pool]
                  ELSE _get_http_client(held, pool)
    IN
    IF validated.raised
        THEN Outcome(TRUE, validated.exc, NoRequest,
                credentials._api_credentials, got._http_client, got.clients)
    ELSE IF parsed_params.raised
        THEN Outcome(TRUE, parsed_params.exc, NoRequest,
                credentials._api_credentials, got._http_client, got.clients)
    ELSE IF DOMAIN parsed_params.value \cap PositionalNames # {}
        THEN Outcome(TRUE,
                Exception("TypeError",
                    <<"bugcrowd_request() got multiple values for argument ">>),
                NoRequest, cache, held, pool)
    ELSE bugcrowd_request_send(method, full_endpoint(endpoint, resource_id),
             json_data, parsed_params.value, cache, env, held, pool)

\* _make_api_request up to the suspension inside bugcrowd_request.
_make_api_request(method, endpoint, resource_id, query_params, json_data, cache, env, held, pool) ==
    LET validated == IF given(resource_id)
                        THEN _validate_resource_id(resource_id.s)
                        ELSE Returned(<<>>)
    IN
    IF validated.raised
        THEN Outcome(TRUE, validated.exc, NoRequest, cache, held, pool)
    ELSE
        LET parsed_params == _parse_query_params(query_params) IN
        IF parsed_params.raised
            THEN Outcome(TRUE, parsed_params.exc, NoRequest, cache, held, pool)
        ELSE IF DOMAIN parsed_params.value \cap PositionalNames # {}
            THEN Outcome(TRUE,
                    Exception("TypeError",
                        <<"bugcrowd_request() got multiple values for argument ">>
                            \o (CHOOSE k \in DOMAIN parsed_params.value \cap PositionalNames :
                                    TRUE)),
                    NoRequest, cache, held, pool)
        ELSE bugcrowd_request_send(method, full_endpoint(endpoint, resource_id),
                 json_data, parsed_params.value, cache, env, held, pool)

(* ------------------------------ workloads ------------------------------ *)

SeqsUpTo(S, n) == UNION {[1..m -> S] : m \in 0..n}

Dict(fields) == [type |-> "dict", fields |-> fields]

Env(username, password) ==
    [BUGCROWD_API_USERNAME |-> username, BUGCROWD_API_PASSWORD |-> password]

Response(status, body) ==
    [kind |-> "response", status |-> status, body |-> body, detail |-> <<>>]
Failure(kind, detail) ==
    [kind |-> kind, status |-> 0, body |-> [type |-> "none", text |-> ""], detail |-> detail]

JsonBody == [type |-> "json", text |-> "{\"data\": []}"]
HtmlBody == [type |-> "text", text |-> "<html>Bad Gateway</html>"]

\* What the upstream and the transport can answer one request with.
Upstreams ==
    {Response(st, b) : st \in {200, 201}, b \in {JsonBody, HtmlBody}}
    \cup {Response(st, HtmlBody) : st \in {304, 400, 401, 403, 404, 429, 500, 503}}
    \cup {Failure("RequestError", <<d>>) : d \in {"ConnectTimeout", "ConnectError"}}
    \cup {Failure("Exception", <<"Cannot send a request, as the client has been closed.">>)}

\* Submission bodies: every choice of title and description, each absent,
\* empty or filled in, and bodies with a program_id beside them.
SubmissionBodies ==
    {Dict(f) : f \in UNION {[S -> {Str(<<>>), Str(<<"XSS">>)}] :
                                S \in SUBSET {"title", "description"}}}
    \cup {Dict([program_id |-> Str(<<"prog-123">>)]),
          Dict([title |-> Str(<<"XSS">>), description |-> Str(<<"Details">>),
                program_id |-> Str(<<"prog-123">>)])}

\* One caller at a time, every shape of argument.
SequentialWorkload ==
    [tasks |-> {1},
     methods |-> {"GET", "POST"},
     endpoints |-> {<<"/programs">>},
     resource_ids |-> {None, Str(<<>>), Str(<<SP>>), Str(<<"k">>),
                       Str(<<SP, "k", "-", "v", SP>>), Str(<<"..", "/", "k">>)},
     queries |-> {<<>>, <<SP>>, <<"k", "=", "v">>, <<"k", SP, "k", "=", "v">>,
                  <<"k", "%0A", "=", "v">>, <<"method", "=", "v">>,
                  <<"query_params", "=", "v">>,
                  <<"query_params", "=", "v", "&", "k", "=", "v">>},
     bodies |-> {None, Dict([title |-> Str(<<"XSS">>)])},
     submissions |-> SubmissionBodies,
     environments |-> {Env(None, None), Env(Str(<<"alice">>), Str(<<>>)),
                       Env(Str(<<"alice">>), Str(<<"s3cret">>)),
                       Env(Str(<<"bob">>), Str(<<"hunter2">>))},
     upstreams |-> Upstreams]

\* Several callers in flight at once, few shapes of argument.
ConcurrentWorkload ==
    [tasks |-> 1..NumTasks,
     methods |-> {"GET"},
     endpoints |-> {<<"/programs">>},
     resource_ids |-> {None},
     queries |-> {<<>>},
     bodies |-> {None},
     submissions |-> {Dict([title |-> Str(<<"XSS">>),
                            description |-> Str(<<"Details">>)])},
     environments |-> {Env(None, None), Env(Str(<<"alice">>), Str(<<"s3cret">>))},
     upstreams |-> {Response(200, JsonBody),
                    Failure("RequestError", <<"ConnectTimeout">>)}]

RawAlphabet == {"k", "=", "&", SP, "+", "%0A"}
IdAlphabet == {"k", "-", SP, "/", LF}

(* ------------------------------- state --------------------------------- *)

NoResult == [raised |-> FALSE, exc |-> NoException, value |-> None]

IdleTask ==
    [pc |-> "idle", method |-> "", endpoint |-> <<>>, resource_id |-> None,
     query_params |-> <<>>, json_data |-> None, request |-> NoRequest,
     attempts |-> 0, upstream |-> Failure("none", <<>>), result |-> NoResult,
     tool |-> "", reply |-> NoResult]

IdleCodec == [op |-> "none", stage |-> "idle", input |-> <<>>, output |-> NoResult]

\* No teardown has run: nothing awaited, nothing raised.
NoTeardown == [calls |-> 0, aclose |-> "none", raised |-> FALSE]

InitGlobals ==
    /\ _api_credentials = None
    /\ _http_client = 0
    /\ clients = <<>>
    /\ teardown = NoTeardown

Init ==
    /\ workload = SequentialWorkload
    /\ environ \in workload.environments
    /\ InitGlobals
    /\ task = [t \in workload.tasks |-> IdleTask]
    /\ codec = IdleCodec

InitConcurrent ==
    /\ workload = ConcurrentWorkload
    /\ environ \in workload.environments
    /\ InitGlobals
    /\ task = [t \in workload.tasks |-> IdleTask]
    /\ codec = IdleCodec

InitCodec ==
    /\ workload = SequentialWorkload
    /\ environ = Env(None, None)
    /\ InitGlobals
    /\ task = [t \in workload.tasks |-> IdleTask]
    /\ \/ \E raw \in SeqsUpTo(RawAlphabet, MaxRawLen) :
            codec = [op |-> "_parse_query_params", stage |-> "input",
                     input |-> raw, output |-> NoResult]
       \/ \E id \in SeqsUpTo(IdAlphabet, MaxIdLen) :
            codec = [op |-> "_validate_resource_id", stage |-> "input",
                     input |-> id, output |-> NoResult]

(* ------------------------------ actions -------------------------------- *)

\* The tools that only forward their arguments (get_programs, get_program,
\* update_submission, ...) return what _make_api_request returns and let what
\* it raises pass.
ForwardingTool == "_make_api_request"

server_health_propagates(result) == result

\* What server_health makes of the outcome of its request: except Exception
\* takes every exception _make_api_request can raise.
server_health(result) ==
    IF result.raised
        THEN Returned([status |-> "unhealthy", api_connection |-> "error",
                       error |-> result.exc.msg, version |-> "1.0.0"])
        ELSE Returned([status |-> "healthy", api_connection |-> "ok",
                       version |-> "1.0.0",
                       bugcrowd_api_version |-> BUGCROWD_API_VERSION])

\* What the tool hands its own caller once _make_api_request has ended.
tool_reply(tool, result) ==
    IF tool = "server_health" THEN server_health(result) ELSE result

\* The task after _make_api_request ran to its first suspension with outcome r.
Started(tool, method, endpoint, resource_id, query_params, json_data, r) ==
    [pc |-> IF r.raised THEN "done" ELSE "inflight",
     method |-> method, endpoint |-> endpoint,
     resource_id |-> resource_id, query_params |-> query_params,
     json_data |-> json_data, request |-> r.request,
     attempts |-> IF r.raised THEN 0 ELSE 1,
     upstream |-> Failure("none", <<>>),
     result |-> IF r.raised THEN Raised(r.exc) ELSE NoResult,
     tool |-> tool,
     reply |-> IF r.raised THEN tool_reply(tool, Raised(r.exc)) ELSE NoResult]

\* A tool invokes _make_api_request; the call runs to its first suspension:
\* it raises, or the request is on the wire.
Call(t) ==
    /\ task[t].pc = "idle"
    /\ \E method \in workload.methods, endpoint \in workload.endpoints,
          resource_id \in workload.resource_ids, query_params \in workload.queries,
          json_data \in workload.bodies :
        LET r == _make_api_request(method, endpoint, resource_id, query_params,
                     json_data, _api_credentials, environ, _http_client, clients)
        IN  /\ Len(r.clients) <= MaxClients
            /\ _api_credentials' = r._api_credentials
            /\ _http_client' = r._http_client
            /\ clients' = r.clients
            /\ task' = [task EXCEPT ![t] =
                    Started(ForwardingTool, method, endpoint, resource_id,
                            query_params, json_data, r)]
    /\ UNCHANGED <<environ, teardown, workload, codec>>

\* dict.get(field): the value, or None when the key is absent.
get(data, field) ==
    IF field \in DOMAIN data.fields THEN data.fields[field] ELSE None

RECURSIVE join(_, _)
\* sep.join(parts)
join(parts, sep) ==
    IF parts = <<>> THEN <<>>
    ELSE IF Len(parts) = 1 THEN <<Head(parts)>>
    ELSE <<Head(parts), sep>> \o join(Tail(parts), sep)

required_fields == <<"title", "description">>

missing_fields_title_only(data) ==
    SelectSeq(<<"title">>, LAMBDA field : ~ truthy(get(data, field)))

\* [field for field in required_fields if not data.get(field)]
missing_fields(data) ==
    SelectSeq(required_fields, LAMBDA field : ~ truthy(get(data, field)))

\* The checks create_submission makes before it calls _make_api_request.
create_submission(data) ==
    IF data.type # "dict" \/ DOMAIN data.fields = {}
        THEN Raised(Exception("ValueError",
                <<"Submission data must be a non-empty dictionary">>))
    ELSE IF missing_fields(data) # <<>>
        THEN Raised(Exception("ValueError",
                <<"Missing required fields: ">> \o join(missing_fields(data), ", ")))
    ELSE Returned(data)

\* create_submission is invoked: it raises on its own checks, or its request,
\* POST /submissions with the body, runs to its first suspension.
CreateSubmission(t) ==
    /\ task[t].pc = "idle"
    /\ \E data \in workload.submissions :
        LET checked == create_submission(data)
            r == _make_api_request("POST", <<"/submissions">>, None, <<>>, data,
                     _api_credentials, environ, _http_client, clients)
        IN  IF checked.raised
                THEN /\ task' = [task EXCEPT ![t] =
                            [IdleTask EXCEPT !.pc = "done", !.json_data = data,
                                             !.tool = "create_submission",
                                             !.result = checked,
                                             !.reply = checked]]
                     /\ UNCHANGED <<_api_credentials, _http_client, clients>>
                ELSE /\ Len(r.clients) <= MaxClients
                     /\ _api_credentials' = r._api_credentials
                     /\ _http_client' = r._http_client
                     /\ clients' = r.clients
                     /\ task' = [task EXCEPT ![t] =
                            Started("create_submission", "POST", <<"/submissions">>,
                                    None, <<>>, data, r)]
    /\ UNCHANGED <<environ, teardown, workload, codec>>

\* server_health is invoked: its one request, GET /organizations?limit=1,
\* runs to its first suspension.
ServerHealth(t) ==
    /\ task[t].pc = "idle"
    /\ LET r == _make_api_request("GET", <<"/organizations">>, None,
                     <<"limit", "=", "1">>, None, _api_credentials, environ,
                     _http_client, clients)
       IN  /\ Len(r.clients) <= MaxClients
           /\ _api_credentials' = r._api_credentials
           /\ _http_client' = r._http_client
           /\ clients' = r.clients
           /\ task' = [task EXCEPT ![t] =
                   Started("server_health", "GET", <<"/organizations">>, None,
                           <<"limit", "=", "1">>, None, r)]
    /\ UNCHANGED <<environ, teardown, workload, codec>>

\* client.request resumes with the upstream's answer or the transport's failure;
\* bugcrowd_request classifies it, the call ends and the tool that made it
\* has its reply.
Respond(t) ==
    /\ task[t].pc = "inflight"
    /\ \E upstream \in workload.upstreams :
        LET result == bugcrowd_request_recv(task[t].method,
                          full_endpoint(task[t].endpoint, task[t].resource_id),
                          upstream)
        IN  task' = [task EXCEPT ![t].pc = "done",
                                 ![t].upstream = upstream,
                                 ![t].result = result,
                                 ![t].reply = tool_reply(task[t].tool, result)]
    /\ UNCHANGED <<environ, _api_credentials, _http_client, clients, teardown, workload, codec>>

\* The caller takes the result; the task is free for the next invocation.
Return(t) ==
    /\ task[t].pc = "done"
    /\ task' = [task EXCEPT ![t] = IdleTask]
    /\ UNCHANGED <<environ, _api_credentials, _http_client, clients, teardown, workload, codec>>

\* What the awaited aclose() can do: close the client, or raise, with the
\* client by then marked closed or still open.
AcloseOutcomes == {"closed", "raised_closed", "raised_open"}

\* _cleanup_http_client awaits aclose() only on a held, open client and has no
\* handler of its own: what aclose() raises leaves the coroutine.
_cleanup_http_client(held, pool, aclose) ==
    IF held # 0 /\ ~ pool[held]
        THEN [awaited |-> TRUE, raised |-> aclose # "closed",
              clients |-> IF aclose = "raised_open" THEN pool
                          ELSE [pool EXCEPT ![held] = TRUE]]
        ELSE [awaited |-> FALSE, raised |-> FALSE, clients |-> pool]

main_finally_reraises(cleanup) ==
    [raised |-> cleanup.raised, clients |-> cleanup.clients]

\* The finally block of __main__: asyncio.run(_cleanup_http_client()) inside
\* try / bare except: pass.  Whatever the coroutine raises stops here.
main_finally(cleanup) ==
    [raised |-> FALSE, clients |-> cleanup.clients]

\* The process teardown runs.
Shutdown ==
    /\ teardown.calls < MaxShutdowns
    /\ \E aclose \in AcloseOutcomes :
        LET cleanup == _cleanup_http_client(_http_client, clients, aclose)
            exit == main_finally(cleanup)
        IN  /\ clients' = exit.clients
            /\ teardown' = [calls |-> teardown.calls + 1,
                            aclose |-> IF cleanup.awaited THEN aclose ELSE "none",
                            raised |-> exit.raised]
    /\ UNCHANGED <<environ, _api_credentials, _http_client, task, workload, codec>>

\* The process configuration changes under the running process.
SetEnv ==
    /\ \E e \in workload.environments : e # environ /\ environ' = e
    /\ UNCHANGED <<_api_credentials, _http_client, clients, task, teardown, workload, codec>>

ParseQueryString ==
    /\ codec.stage = "input"
    /\ codec.op = "_parse_query_params"
    /\ codec' = [codec EXCEPT !.stage = "output",
                              !.output = _parse_query_params(codec.input)]
    /\ UNCHANGED <<environ, _api_credentials, _http_client, clients, task, teardown, workload>>

ValidateResourceId ==
    /\ codec.stage = "input"
    /\ codec.op = "_validate_resource_id"
    /\ codec' = [codec EXCEPT !.stage = "output",
                              !.output = _validate_resource_id(codec.input)]
    /\ UNCHANGED <<environ, _api_credentials, _http_client, clients, task, teardown, workload>>

Next ==
    \/ \E t \in workload.tasks : Call(t)
    \/ \E t \in workload.tasks : ServerHealth(t)
    \/ \E t \in workload.tasks : CreateSubmission(t)
    \/ \E t \in workload.tasks : Respond(t)
    \/ \E t \in workload.tasks : Return(t)
    \/ Shutdown
    \/ SetEnv

NextCodec ==
    \/ ParseQueryString
    \/ ValidateResourceId

Spec == Init /\ [][Next]_vars
SpecConcurrent == InitConcurrent /\ [][Next]_vars
SpecCodec == InitCodec /\ [][NextCodec]_vars

(* --------------------------- error taxonomy ---------------------------- *)

\* The kind of the taxonomy a caller can tell an exception to be, from its
\* class and the fixed part of its message.
ErrorKind(exc) ==
    IF exc.cls = "ValueError" THEN "MalformedInput"
    ELSE IF exc.cls # "RuntimeError" \/ exc.msg = <<>> THEN "Unclassified"
    ELSE
        LET head == Head(exc.msg) IN
        CASE exc.msg = ConfigurationMessage -> "ConfigurationError"
          [] head = "Authentication failed. Please check your Bugcrowd API credentials."
                -> "AuthenticationError"
          [] head = "Access forbidden. You may not have permission to access this resource."
                -> "AuthorizationError"
          [] head = "Resource not found: " -> "NotFoundError"
          [] head = "Rate limit exceeded. Please try again later." -> "RateLimitedError"
          [] head = "API request failed with status " -> "UpstreamError"
          [] head = "Network error: Unable to connect to Bugcrowd API" -> "NetworkError"
          [] head = UnexpectedPrefix -> "InternalError"
          [] OTHER -> "Unclassified"

Taxonomy ==
    {"MalformedInput", "ConfigurationError", "AuthenticationError", "AuthorizationError",
     "NotFoundError", "RateLimitedError", "UpstreamError", "NetworkError",
     "ProtocolError", "InternalError"}

\* sub occurs in s as a contiguous run.
Contains(s, sub) ==
    \E i \in 1..(Len(s) - Len(sub) + 1) : SubSeq(s, i, i + Len(sub) - 1) = sub

\* The tasks whose call has ended after the upstream was asked.
Answered == {t \in DOMAIN task : task[t].pc = "done" /\ task[t].attempts = 1}

(* ------------------------------- C1 ------------------------------------ *)

\* C1: the outcome of one upstream attempt decides the failure kind:
\* 401 AuthenticationError, 403 AuthorizationError, 404 NotFoundError with the
\* endpoint in the message, 429 RateLimitedError, any other status outside 2xx
\* UpstreamError with the status in the message, a transport failure
\* NetworkError; a 2xx status with a JSON body returns the decoded body.
C1_OutcomeDecidesKind ==
    \A t \in Answered :
        LET u == task[t].upstream
            r == task[t].result
        IN
        /\ u.kind = "RequestError" => r.raised /\ ErrorKind(r.exc) = "NetworkError"
        /\ u.kind = "response" =>
            /\ u.status = 401 => r.raised /\ ErrorKind(r.exc) = "AuthenticationError"
            /\ u.status = 403 => r.raised /\ ErrorKind(r.exc) = "AuthorizationError"
            /\ u.status = 404 =>
                /\ r.raised
                /\ ErrorKind(r.exc) = "NotFoundError"
                /\ Contains(r.exc.msg, task[t].endpoint)
                /\ given(task[t].resource_id) =>
                        Contains(r.exc.msg, strip(task[t].resource_id.s))
            /\ u.status = 429 => r.raised /\ ErrorKind(r.exc) = "RateLimitedError"
            /\ (u.status < 200 \/ u.status > 299) /\ u.status \notin {401, 403, 404, 429} =>
                /\ r.raised
                /\ ErrorKind(r.exc) = "UpstreamError"
                /\ Contains(r.exc.msg, <<ToString(u.status)>>)
            /\ u.status \in 200..299 /\ u.body.type = "json" =>
                /\ ~ r.raised
                /\ r.value = [type |-> "dict", data |-> u.body.text]

\* A 403 on a path with a resource id has been classified.
C1_Witness ==
    \E t \in Answered :
        /\ task[t].upstream.kind = "response"
        /\ task[t].upstream.status = 403
        /\ given(task[t].resource_id)
        /\ ErrorKind(task[t].result.exc) = "AuthorizationError"

(* ------------------------------- C2 ------------------------------------ *)

\* C2: a call that ends with MalformedInput (a rejected resource id or query
\* string) has issued no request and leaves the credentials cache, the client
\* holder and the client objects as they were.
C2_MalformedInputHasNoEffect ==
    [][\A t \in DOMAIN task :
            /\ task[t].pc = "idle"
            /\ task'[t].pc = "done"
            /\ task'[t].result.raised
            /\ ErrorKind(task'[t].result.exc) = "MalformedInput"
            => /\ task'[t].attempts = 0
               /\ task'[t].request = NoRequest
               /\ _api_credentials' = _api_credentials
               /\ _http_client' = _http_client
               /\ clients' = clients]_vars

\* The first call of the process was rejected although the configuration was
\* complete: nothing was loaded and no client constructed.
C2_Witness ==
    \E t \in DOMAIN task :
        /\ task[t].pc = "done"
        /\ task[t].result.raised
        /\ ErrorKind(task[t].result.exc) = "MalformedInput"
        /\ truthy(environ.BUGCROWD_API_USERNAME)
        /\ truthy(environ.BUGCROWD_API_PASSWORD)
        /\ _api_credentials = None
        /\ _http_client = 0
        /\ clients = <<>>

(* ------------------------------- C3 ------------------------------------ *)

\* s is not empty and made of units of charset only.
FullMatch(s, charset) == s # <<>> /\ \A i \in 1..Len(s) : s[i] \in charset

\* A resource id as the specification accepts it: not empty, and letters,
\* digits, hyphen and underscore only.
WellFormedId(id) == FullMatch(id, ResourceIdChars)

\* C3: a call given a resource_id string, once it has asked the upstream or
\* has been rejected as malformed, either has a well-formed trimmed id and
\* asked for base_endpoint/id, or ended with MalformedInput without a
\* request; it never asks for the bare base_endpoint.
C3_ResourceIdValidatedOrRejected ==
    \A t \in DOMAIN task :
        /\ task[t].pc # "idle"
        /\ task[t].resource_id.type = "str"
        /\ \/ task[t].attempts = 1
           \/ ErrorKind(task[t].result.exc) = "MalformedInput"
        => LET id == strip(task[t].resource_id.s)
               base == <<BUGCROWD_API_BASE>> \o task[t].endpoint
           IN
           /\ \/ /\ WellFormedId(id)
                 /\ task[t].attempts = 1
                 /\ task[t].request.url = base \o <<"/">> \o id
              \/ /\ task[t].result.raised
                 /\ ErrorKind(task[t].result.exc) = "MalformedInput"
                 /\ task[t].attempts = 0
           /\ task[t].attempts = 1 => task[t].request.url # base

(* ------------------------------- C4 ------------------------------------ *)

\* C4: every failure that reaches the caller of a call is of a kind of the
\* taxonomy.
C4_TaxonomyClosed ==
    \A t \in DOMAIN task :
        task[t].pc = "done" /\ task[t].result.raised =>
            ErrorKind(task[t].result.exc) \in Taxonomy

(* ------------------------------- C5 ------------------------------------ *)

\* C5: a 2xx answer whose body does not decode as JSON ends the call with a
\* failure of a kind of its own, not InternalError nor any other kind.
C5_UndecodableBodyIsProtocolError ==
    \A t \in Answered :
        /\ task[t].upstream.kind = "response"
        /\ is_success(task[t].upstream.status)
        /\ task[t].upstream.body.type # "json"
        => /\ task[t].result.raised
           /\ ErrorKind(task[t].result.exc) \notin Taxonomy \ {"ProtocolError"}

(* ------------------------------- C6 ------------------------------------ *)

\* C6: a call with accepted arguments, made while nothing is cached and the
\* principal or the secret is absent or empty, ends with ConfigurationError
\* and issues no request.
C6_MissingConfigurationIsConfigurationError ==
    [][\A t \in DOMAIN task :
            /\ task[t].pc = "idle"
            /\ task'[t].pc # "idle"
            /\ _api_credentials = None
            /\ ~ (truthy(environ.BUGCROWD_API_USERNAME)
                    /\ truthy(environ.BUGCROWD_API_PASSWORD))
            /\ task'[t].result.exc.cls \notin {"ValueError", "TypeError"}
            => /\ task'[t].pc = "done"
               /\ task'[t].result.raised
               /\ ErrorKind(task'[t].result.exc) = "ConfigurationError"
               /\ task'[t].attempts = 0
               /\ task'[t].request = NoRequest]_vars

(* ------------------------------- C7 ------------------------------------ *)

HasEquals(segment) == find(segment, "=", 1) # 0

\* The significant pairs of a raw query string, left to right.
Significant(raw) == SelectSeq(split(raw, "&"), HasEquals)

\* Key and value of a significant pair: cut at the first '=', trimmed, decoded.
TrimmedKey(segment) == unquote_plus(strip(split1(segment, "=")[1]))
TrimmedValue(segment) == unquote_plus(strip(split1(segment, "=")[2]))

Parsed == codec.op = "_parse_query_params" /\ codec.stage = "output"

\* C7: parse_query_string fails with MalformedInput when the key of a
\* significant pair is empty or holds a character outside letters, digits,
\* underscore, '[', ']' and '.'; every key of a returned mapping is made of
\* those characters only.
C7_KeysMatchCharset ==
    Parsed =>
        LET pairs == Significant(codec.input) IN
        /\ (\E i \in 1..Len(pairs) : ~ FullMatch(TrimmedKey(pairs[i]), ParamNameChars))
            => codec.output.raised /\ ErrorKind(codec.output.exc) = "MalformedInput"
        /\ ~ codec.output.raised
            => \A k \in DOMAIN codec.output.value : FullMatch(k, ParamNameChars)

(* ------------------------------- C8 ------------------------------------ *)

\* Key and value of a significant pair as the claim words them: cut at the
\* first '=', decoded.
DecodedKey(segment) == unquote_plus(split1(segment, "=")[1])
DecodedValue(segment) == unquote_plus(split1(segment, "=")[2])

\* The index of the last pair whose key is k.
LastIndex(keys, k) ==
    CHOOSE i \in 1..Len(keys) : keys[i] = k /\ \A j \in (i + 1)..Len(keys) : keys[j] # k

\* The mapping in which every key has the value of its last pair.
LastWriteWins(keys, values) ==
    [k \in {keys[i] : i \in 1..Len(keys)} |-> values[LastIndex(keys, k)]]

DecodedMapping(raw) ==
    LET pairs == Significant(raw) IN
    LastWriteWins([i \in 1..Len(pairs) |-> DecodedKey(pairs[i])],
                  [i \in 1..Len(pairs) |-> DecodedValue(pairs[i])])

TrimmedMapping(raw) ==
    LET pairs == Significant(raw) IN
    LastWriteWins([i \in 1..Len(pairs) |-> TrimmedKey(pairs[i])],
                  [i \in 1..Len(pairs) |-> TrimmedValue(pairs[i])])

\* C8 as claimed: when every significant pair has a valid key, the result is
\* the mapping of decoded keys to decoded values, the last pair of a key
\* winning; an empty or whitespace-only string gives the empty mapping.
C8_DecodedLastWriteWins ==
    Parsed =>
        LET pairs == Significant(codec.input) IN
        /\ strip(codec.input) = <<>> => ~ codec.output.raised /\ codec.output.value = <<>>
        /\ (\A i \in 1..Len(pairs) : FullMatch(DecodedKey(pairs[i]), ParamNameChars))
            => /\ ~ codec.output.raised
               /\ codec.output.value = DecodedMapping(codec.input)

\* C8 as amended: key and value are trimmed of surrounding whitespace before
\* they are decoded.  When every significant pair has a valid trimmed and
\* decoded key the call returns, and whatever it returns is the mapping of
\* those keys to the trimmed and decoded values, the last pair of a key
\* winning; an empty or whitespace-only string gives the empty mapping.
C8_TrimmedLastWriteWins ==
    Parsed =>
        LET pairs == Significant(codec.input) IN
        /\ strip(codec.input) = <<>> => ~ codec.output.raised /\ codec.output.value = <<>>
        /\ (\A i \in 1..Len(pairs) : FullMatch(TrimmedKey(pairs[i]), ParamNameChars))
            => ~ codec.output.raised
        /\ ~ codec.output.raised => codec.output.value = TrimmedMapping(codec.input)

\* A string was parsed in which a key occurs twice with different values.
C8_Witness ==
    /\ Parsed
    /\ ~ codec.output.raised
    /\ LET pairs == Significant(codec.input) IN
        \E i, j \in 1..Len(pairs) :
            /\ i < j
            /\ TrimmedKey(pairs[i]) = TrimmedKey(pairs[j])
            /\ TrimmedValue(pairs[i]) # TrimmedValue(pairs[j])
            /\ codec.output.value[TrimmedKey(pairs[j])] = TrimmedValue(pairs[j])

(* ------------------------------- C9 ------------------------------------ *)

\* The client objects that are not closed.
OpenClients == {i \in 1..Len(clients) : ~ clients[i]}

\* C9: at most one client is open at any time and every request in flight on
\* an open client is on the held one; a client is constructed only when none
\* is held or the held one is closed, and a call made while an open client
\* is held is given that client.
C9_OneSharedClient ==
    /\ [](/\ Cardinality(OpenClients) <= 1
          /\ \A t \in DOMAIN task :
                task[t].pc = "inflight" /\ task[t].request.client \in OpenClients
                    => task[t].request.client = _http_client)
    /\ [][/\ Len(clients') > Len(clients) => (_http_client = 0 \/ clients[_http_client])
          /\ \A t \in DOMAIN task :
                /\ task[t].pc = "idle"
                /\ task'[t].pc = "inflight"
                /\ _http_client \in OpenClients
                => /\ task'[t].request.client = _http_client
                   /\ _http_client' = _http_client
                   /\ clients' = clients]_vars

\* Two calls are in flight on the one open client.
C9_Witness ==
    \E t, u \in DOMAIN task :
        /\ t # u
        /\ task[t].pc = "inflight"
        /\ task[u].pc = "inflight"
        /\ task[t].request.client = task[u].request.client
        /\ task[t].request.client \in OpenClients

(* ------------------------------- C10 ----------------------------------- *)

\* The Authorization header built from a cached pair.
TokenOf(credentials) ==
    <<"Token ">> \o credentials.username \o <<":">> \o credentials.password

\* C10: once loaded, the cached pair never changes; every request issued
\* carries the Authorization header "Token <principal>:<secret>" of the
\* cached pair; a load that fails leaves the cache empty and the first load
\* that succeeds caches the pair the configuration holds at that moment.
C10_CredentialsWriteOnce ==
    /\ [][_api_credentials # None => _api_credentials' = _api_credentials]_vars
    /\ [](\A t \in DOMAIN task :
            task[t].attempts = 1 =>
                /\ _api_credentials # None
                /\ "Authorization" \in DOMAIN task[t].request.headers
                /\ task[t].request.headers["Authorization"] = TokenOf(_api_credentials))
    /\ [][\A t \in DOMAIN task :
            task[t].pc = "idle" /\ task'[t].pc # "idle" /\ _api_credentials = None =>
                IF task'[t].attempts = 1
                    THEN _api_credentials' =
                            [type |-> "dict",
                             username |-> environ.BUGCROWD_API_USERNAME.s,
                             password |-> environ.BUGCROWD_API_PASSWORD.s]
                    ELSE _api_credentials' = None]_vars

\* A request is in flight on the second client of the process, with the
\* cached pair in its header, while the configuration no longer holds that pair.
C10_Witness ==
    \E t \in DOMAIN task :
        /\ task[t].pc = "inflight"
        /\ _api_credentials # None
        /\ environ.BUGCROWD_API_USERNAME # Str(_api_credentials.username)
        /\ task[t].request.client = 2
        /\ task[t].request.headers["Authorization"] = TokenOf(_api_credentials)

(* ------------------------------- C11 ----------------------------------- *)

\* A step in which the process teardown ran.
ShutdownStep == teardown'.calls = teardown.calls + 1

\* C11: the process teardown is idempotent and total.  Run while an open
\* client is held, it awaits the close of that client and of no other, and a
\* close that succeeds leaves the client closed; run when no client was ever
\* acquired, or again once the held client is closed, it changes no state; in
\* every case, the close itself failing included, it returns normally to its
\* caller and leaves the credentials, the held reference and the calls alone.
C11_ShutdownIdempotentAndTotal ==
    [][ShutdownStep =>
        /\ ~ teardown'.raised
        /\ UNCHANGED <<environ, _api_credentials, _http_client, task>>
        /\ IF _http_client \in OpenClients
             THEN /\ teardown'.aclose \in AcloseOutcomes
                  /\ teardown'.aclose = "closed" => clients'[_http_client]
                  /\ \A i \in DOMAIN clients \ {_http_client} : clients'[i] = clients[i]
                  /\ DOMAIN clients' = DOMAIN clients
             ELSE /\ teardown'.aclose = "none"
                  /\ clients' = clients]_vars

\* The teardown has run a second time and the close it awaited failed, the
\* client still open behind it; the teardown returned normally all the same.
C11_Witness ==
    /\ teardown.calls = 2
    /\ teardown.aclose = "raised_open"
    /\ ~ teardown.raised
    /\ _http_client \in OpenClients

(* ------------------------------- C12 ----------------------------------- *)

\* The arguments of a call pass both validators.
InputsValidate(resource_id, query_params) ==
    /\ given(resource_id) => ~ _validate_resource_id(resource_id.s).raised
    /\ ~ _parse_query_params(query_params).raised

\* The credentials are cached or the configuration holds both of them.
CredentialsLoad == ~ _load_api_credentials(_api_credentials, environ).raised

\* C12: a call asks the upstream at most once, and exactly once when its
\* arguments validate and the credentials load; the answer ends the call
\* without a second request, whatever it is, and a failure is raised to the
\* caller.
C12_OneAttemptNoRetry ==
    /\ [](\A t \in DOMAIN task : task[t].attempts \in {0, 1})
    /\ [][\A t \in DOMAIN task :
            (/\ task[t].pc = "idle" /\ task'[t].pc # "idle"
             /\ InputsValidate(task'[t].resource_id, task'[t].query_params)
             /\ CredentialsLoad)
                => task'[t].attempts = 1 /\ task'[t].pc = "inflight"]_vars
    /\ [][\A t \in DOMAIN task :
            task[t].pc = "inflight" /\ task'[t] # task[t] =>
                /\ task'[t].pc = "done"
                /\ task'[t].attempts = 1
                /\ task'[t].request = task[t].request
                /\ \/ task'[t].result.raised
                   \/ /\ task'[t].upstream.kind = "response"
                      /\ is_success(task'[t].upstream.status)]_vars
    /\ [][\A t \in DOMAIN task :
            task[t].pc = "done" => task'[t].pc \in {"done", "idle"}]_vars

(* ------------------------------- C13 ----------------------------------- *)

\* The server_health calls that have ended.
HealthChecked == {t \in DOMAIN task : task[t].tool = "server_health" /\ task[t].pc = "done"}

\* C13: server_health never raises.  Whatever became of its request, it
\* returns a status object: status "healthy" and api_connection "ok", with no
\* error field, exactly when the request succeeded; status "unhealthy" and
\* api_connection "error", with the message of the failure in the error
\* field, in every other case.
C13_HealthNeverRaises ==
    \A t \in HealthChecked :
        /\ ~ task[t].reply.raised
        /\ task[t].reply.value.status \in {"healthy", "unhealthy"}
        /\ task[t].reply.value.status = "healthy" <=> ~ task[t].result.raised
        /\ IF task[t].result.raised
             THEN /\ task[t].reply.value.status = "unhealthy"
                  /\ task[t].reply.value.api_connection = "error"
                  /\ "error" \in DOMAIN task[t].reply.value
                  /\ task[t].reply.value.error = task[t].result.exc.msg
                  /\ task[t].reply.value.error # <<>>
             ELSE /\ task[t].reply.value.api_connection = "ok"
                  /\ "error" \notin DOMAIN task[t].reply.value

\* A health check whose request the upstream refused with 401 has ended: the
\* request raised, the tool returned the unhealthy status object.
C13_Witness ==
    \E t \in HealthChecked :
        /\ task[t].attempts = 1
        /\ task[t].upstream.kind = "response"
        /\ task[t].upstream.status = 401
        /\ task[t].result.raised
        /\ ~ task[t].reply.raised
        /\ task[t].reply.value.status = "unhealthy"

(* ------------------------------- C14 ----------------------------------- *)

\* The create_submission calls under way or ended.
Submitted == {t \in DOMAIN task : task[t].tool = "create_submission"}

\* The required fields a body lacks: absent from it, or there without content.
Lacking(data) == {f \in {"title", "description"} : ~ truthy(get(data, f))}

\* The fields a failure message names.
Listed(exc) == {f \in {"title", "description"} : Contains(exc.msg, <<f>>)}

\* A call that create_submission rejected before any request: MalformedInput,
\* nothing sent.
RejectedSubmission(t) ==
    /\ task[t].pc = "done"
    /\ task[t].attempts = 0
    /\ task[t].request = NoRequest
    /\ task[t].reply.raised
    /\ ErrorKind(task[t].reply.exc) = "MalformedInput"

\* A request of create_submission is POST /submissions with the body, and the
\* body has both required fields.
SentSubmission(t) ==
    task[t].attempts = 1 =>
        /\ Lacking(task[t].json_data) = {}
        /\ task[t].request.method = "POST"
        /\ task[t].request.url = <<BUGCROWD_API_BASE, "/submissions">>
        /\ task[t].request.json = task[t].json_data

\* C14 as claimed: a body that lacks title or description, the empty object
\* included, is rejected with MalformedInput whose message lists exactly the
\* fields it lacks, and nothing is sent; a request is sent, as POST
\* /submissions, only when both are there.
C14_MissingFieldsListed ==
    \A t \in Submitted :
        /\ Lacking(task[t].json_data) # {} =>
                /\ RejectedSubmission(t)
                /\ Listed(task[t].reply.exc) = Lacking(task[t].json_data)
        /\ SentSubmission(t)

\* C14 as the code has it: the empty object is rejected with MalformedInput
\* saying the data must be a non-empty dictionary, no field named; any other
\* body that lacks title or description (absent or empty) is rejected with
\* MalformedInput whose message lists exactly the fields it lacks; nothing is
\* sent in either case, and a request is sent, as POST /submissions, only
\* when both are there.
C14_EmptyBodyOrMissingFields ==
    \A t \in Submitted :
        /\ Lacking(task[t].json_data) # {} =>
                /\ RejectedSubmission(t)
                /\ IF DOMAIN task[t].json_data.fields = {}
                     THEN task[t].reply.exc.msg =
                            <<"Submission data must be a non-empty dictionary">>
                     ELSE /\ Head(task[t].reply.exc.msg) = "Missing required fields: "
                          /\ Listed(task[t].reply.exc) = Lacking(task[t].json_data)
        /\ SentSubmission(t)

\* create_submission({}) has ended: MalformedInput, nothing sent, and the
\* message names neither title nor description.
C14_Witness ==
    \E t \in Submitted :
        /\ DOMAIN task[t].json_data.fields = {}
        /\ RejectedSubmission(t)
        /\ Listed(task[t].reply.exc) = {}

(* ------------------------------- C15 ----------------------------------- *)

\* raise RuntimeError(...) from e: the exception the caller receives is
\* chained from the one the handler caught.  An httpx.HTTPStatusError holds
\* the request (method, URL) and the response (status); an httpx.RequestError
\* holds the request; the JSON decoding error and whatever else client.request
\* raises hold neither.
CauseHoldsRequest(t) ==
    \/ task[t].upstream.kind = "RequestError"
    \/ task[t].upstream.kind = "response" /\ ~ is_success(task[t].upstream.status)

CauseHoldsStatus(t) ==
    task[t].upstream.kind = "response" /\ ~ is_success(task[t].upstream.status)

\* C15: the error raised for an upstream or transport failure carries, in its
\* message or in the exception it is chained from, the method and the
\* endpoint of the failed request and, when the upstream answered, the
\* status of the answer; its message is not empty.
C15_ErrorsCarryContext ==
    \A t \in Answered :
        task[t].result.raised =>
            LET msg == task[t].result.exc.msg
                endpoint == full_endpoint(task[t].endpoint, task[t].resource_id)
            IN  /\ msg # <<>>
                /\ Contains(msg, <<task[t].method>>) \/ CauseHoldsRequest(t)
                /\ Contains(msg, endpoint) \/ CauseHoldsRequest(t)
                /\ task[t].upstream.kind = "response" =>
                        \/ Contains(msg, <<ToString(task[t].upstream.status)>>)
                        \/ CauseHoldsStatus(t)

(* ------------------------------- C16 ----------------------------------- *)

\* The calls whose request reached the network.
Sent == {t \in DOMAIN task : task[t].attempts = 1}

\* C16 as claimed: the query parameters of a request are exactly the mapping
\* parsed from the call's query string, no key dropped, added or renamed, a
\* key named query_params included.
C16_ParamsAreParsedParams ==
    \A t \in Sent :
        task[t].request.params = TrimmedMapping(task[t].query_params)

\* C16 as the code has it: the query parameters of a request are the mapping
\* parsed from the call's query string without the key query_params, which is
\* never sent; every other key is sent under its own name with its own value
\* and no key is added.
C16_ParamsAreParsedParamsButOne ==
    \A t \in Sent :
        LET parsed == TrimmedMapping(task[t].query_params)
            params == task[t].request.params
        IN  /\ DOMAIN params = DOMAIN parsed \ {<<"query_params">>}
            /\ \A k \in DOMAIN params : params[k] = parsed[k]

\* A request is on the wire for the query string "query_params=v&k=v": it has
\* the parameter k and not the parameter query_params.
C16_Witness ==
    \E t \in Sent :
        /\ DOMAIN TrimmedMapping(task[t].query_params) = {<<"query_params">>, <<"k">>}
        /\ DOMAIN task[t].request.params = {<<"k">>}
        /\ task[t].request.params[<<"k">>] = <<"v">>

====
